---- MODULE Spec2Model ----
(***************************************************************************)
(* A model of trafdat, the read-only HTTP server of a date-partitioned     *)
(* traffic-sensor archive (src/src/sensor.rs, src/src/metro.rs,            *)
(* src/src/main.rs).                                                       *)
(*                                                                         *)
(* Strings are sequences of one-character strings, so that slicing         *)
(* (&date[..4]), starts_with / ends_with, splitn and Path::extension are   *)
(* computed the way the code computes them.  An Option<T> is a set with at *)
(* most one element: {} is None and {x} is Some(x).  A Vec whose order is  *)
(* the directory's enumeration order is a bag of its elements.             *)
(***************************************************************************)
EXTENDS Integers, Sequences, FiniteSets, Bags, TLC

VARIABLES
    fs,     \* the traffic archive below BASE_PATH: a set of nodes
    cfg,    \* the configuration root: a set of snapshot files
    req,    \* the request (or pure-function input) being served
    resp    \* its response (or result); Pending before it is served

vars == <<fs, cfg, req, resp>>

Pending == [done |-> FALSE]

(***************************************************************************)
(* Bounds of the model.                                                    *)
(***************************************************************************)
\* longest extension drawn from the full alphabet for sample_file_ext
MaxExtLen == 4
\* longest extension drawn from the full alphabet for is_valid_sample_len
MaxLenExtLen == 2
\* most nodes the archive holds at a time
MaxNodes == 3
\* most snapshots the configuration root holds at a time
MaxSnapshots == 2

(***************************************************************************)
(* Strings.                                                                *)
(***************************************************************************)
Digits == {"0", "1", "2", "3", "4", "5", "6", "7", "8", "9"}

DigitVal(c) ==
    CASE c = "0" -> 0 [] c = "1" -> 1 [] c = "2" -> 2 [] c = "3" -> 3
      [] c = "4" -> 4 [] c = "5" -> 5 [] c = "6" -> 6 [] c = "7" -> 7
      [] c = "8" -> 8 [] c = "9" -> 9

Min(S) == CHOOSE x \in S : \A y \in S : x <= y
Max(S) == CHOOSE x \in S : \A y \in S : x >= y

\* all strings over alphabet A of length at most n
AllStrings(A, n) == UNION {[1..k -> A] : k \in 0..n}

\* str::starts_with
starts_with(s, p) == Len(p) <= Len(s) /\ SubSeq(s, 1, Len(p)) = p

\* str::ends_with
ends_with(s, p) ==
    Len(p) <= Len(s) /\ SubSeq(s, Len(s) - Len(p) + 1, Len(s)) = p

\* A character outside ASCII is written as the token of its code point; in
\* UTF-8 it takes more than one byte.
E_ACUTE == "U+00E9"
EURO == "U+20AC"

\* the number of bytes of a character in UTF-8
len_utf8(c) == IF c = E_ACUTE THEN 2 ELSE IF c = EURO THEN 3 ELSE 1

\* str::len: the length of a string in bytes
RECURSIVE str_len(_)
str_len(s) == IF s = <<>> THEN 0 ELSE len_utf8(Head(s)) + str_len(Tail(s))

\* str::is_char_boundary: byte offset i is the start of a character or the
\* end of the string
is_char_boundary(s, i) ==
    \E k \in 0..Len(s) : str_len(SubSeq(s, 1, k)) = i

\* the number of characters of s that end at or before byte offset i
CharsBefore(s, i) ==
    Max({k \in 0..Len(s) : str_len(SubSeq(s, 1, k)) <= i})

\* &s[a..b] for byte offsets a <= b <= s.len() that are character
\* boundaries; at any other offsets the slice panics (slice_panics)
str_slice(s, a, b) == SubSeq(s, CharsBefore(s, a) + 1, CharsBefore(s, b))

slice_panics(s, a, b) ==
    \/ b > str_len(s) \/ a > b
    \/ ~is_char_boundary(s, a) \/ ~is_char_boundary(s, b)

\* the value of a string of decimal digits
RECURSIVE DigitsValue(_)
DigitsValue(s) ==
    IF s = <<>> THEN 0
    ELSE 10 * DigitsValue(SubSeq(s, 1, Len(s) - 1)) + DigitVal(s[Len(s)])

\* s without its leading zeros
RECURSIVE StripZeros(_)
StripZeros(s) ==
    IF s # <<>> /\ s[1] = "0" THEN StripZeros(Tail(s)) ELSE s

\* str::parse::<i32>(): an optional sign (+ or -), then one or more decimal
\* digits, and the value must fit 32 bits (-2^31 .. 2^31 - 1)
parse_i32(s) ==
    LET neg  == s # <<>> /\ s[1] = "-"
        body == IF s # <<>> /\ s[1] \in {"+", "-"} THEN Tail(s) ELSE s
        sig  == StripZeros(body)
        hi   == DigitsValue(SubSeq(sig, 1, 9))
        lo   == DigitVal(sig[10])
        over == \/ Len(sig) > 10
                \/ /\ Len(sig) = 10
                   /\ \/ hi > 214748364
                      \/ hi = 214748364 /\ lo > (IF neg THEN 8 ELSE 7)
    IN  IF body = <<>> \/ \E i \in 1..Len(body) : body[i] \notin Digits
        THEN {}
        ELSE IF over THEN {}
        ELSE IF neg /\ Len(sig) = 10 /\ hi = 214748364 /\ lo = 8
             THEN {(0 - 2147483647) - 1}
        ELSE IF neg THEN {0 - DigitsValue(sig)}
        ELSE {DigitsValue(sig)}

(***************************************************************************)
(* Validators (sensor.rs 213-239).                                         *)
(***************************************************************************)
parse_year(year) == {yr \in parse_i32(year) : yr >= 1900 /\ yr <= 9999}

parse_month(month) == {mo \in parse_i32(month) : mo >= 1 /\ mo <= 12}

parse_day(day) == {da \in parse_i32(day) : da >= 1 /\ da <= 31}

\* is_valid_date does not return: a slice it evaluates panics (&& stops at
\* the first operand that is false)
is_valid_date_panics(date) ==
    /\ str_len(date) = 8
    /\ \/ slice_panics(date, 0, 4)
       \/ /\ parse_year(str_slice(date, 0, 4)) # {}
          /\ \/ slice_panics(date, 4, 6)
             \/ /\ parse_month(str_slice(date, 4, 6)) # {}
                /\ slice_panics(date, 6, 8)

\* the value is_valid_date returns, when it returns
is_valid_date(date) ==
    /\ str_len(date) = 8
    /\ parse_year(str_slice(date, 0, 4)) # {}
    /\ parse_month(str_slice(date, 4, 6)) # {}
    /\ parse_day(str_slice(date, 6, 8)) # {}

is_valid_year_date(year, date) == parse_year(year) # {} /\ is_valid_date(date)

(***************************************************************************)
(* The sample-extension grammar (sensor.rs 25-37, 298-346).                *)
(***************************************************************************)
VLOG == <<"v", "l", "o", "g">>

\* a slip: the one-letter fragment "v" is scanned before "vmc", "vs", ...
SAMPLE_TYPES_v_first ==
    << [tok |-> <<"v">>, len |-> 1],
       [tok |-> <<"v", "m", "c">>, len |-> 1],
       [tok |-> <<"v", "s">>, len |-> 1],
       [tok |-> <<"v", "m">>, len |-> 1],
       [tok |-> <<"v", "l">>, len |-> 1],
       [tok |-> <<"o">>, len |-> 2],
       [tok |-> <<"c">>, len |-> 2],
       [tok |-> <<"s">>, len |-> 1],
       [tok |-> <<"p", "r">>, len |-> 2],
       [tok |-> <<"p", "t">>, len |-> 1] >>

\* (extension fragment, bytes per sample), in the order the code scans them
SAMPLE_TYPES ==
    << [tok |-> <<"v", "m", "c">>, len |-> 1],
       [tok |-> <<"v", "s">>, len |-> 1],
       [tok |-> <<"v", "m">>, len |-> 1],
       [tok |-> <<"v", "l">>, len |-> 1],
       [tok |-> <<"v">>, len |-> 1],
       [tok |-> <<"o">>, len |-> 2],
       [tok |-> <<"c">>, len |-> 2],
       [tok |-> <<"s">>, len |-> 1],
       [tok |-> <<"p", "r">>, len |-> 2],
       [tok |-> <<"p", "t">>, len |-> 1] >>

\* (sample period, samples per day), in the order the code scans them
SAMPLE_PERIODS ==
    << [tok |-> <<"6", "0">>, len |-> 1440],
       [tok |-> <<"3", "0">>, len |-> 2880],
       [tok |-> <<"2", "0">>, len |-> 4320],
       [tok |-> <<"1", "5">>, len |-> 5760],
       [tok |-> <<"1", "0">>, len |-> 8640],
       [tok |-> <<"6">>, len |-> 14400],
       [tok |-> <<"5">>, len |-> 17280] >>

\* the first entry of the table whose token is a prefix of ext
sample_type(ext) ==
    LET hits == {i \in DOMAIN SAMPLE_TYPES : starts_with(ext, SAMPLE_TYPES[i].tok)}
    IN  IF hits = {} THEN {} ELSE {SAMPLE_TYPES[Min(hits)]}

\* the first entry of the table whose token is a suffix of ext
sample_period(ext) ==
    LET hits == {i \in DOMAIN SAMPLE_PERIODS : ends_with(ext, SAMPLE_PERIODS[i].tok)}
    IN  IF hits = {} THEN {} ELSE {SAMPLE_PERIODS[Min(hits)]}

sample_file_ext(ext) ==
    IF ext = VLOG THEN {ext}
    ELSE IF \E t \in sample_type(ext) : \E p \in sample_period(ext) :
                Len(t.tok) + Len(p.tok) = Len(ext)
         THEN {ext}
         ELSE {}

\* a slip: the sample width is left out of the product
is_valid_sample_len_no_width(ext, len) ==
    IF ext = VLOG THEN TRUE
    ELSE \E t \in sample_type(ext) : \E p \in sample_period(ext) :
            /\ Len(t.tok) + Len(p.tok) = Len(ext)
            /\ p.len = len

is_valid_sample_len(ext, len) ==
    IF ext = VLOG THEN TRUE
    ELSE \E t \in sample_type(ext) : \E p \in sample_period(ext) :
            /\ Len(t.tok) + Len(p.tok) = Len(ext)
            /\ t.len * p.len = len

(***************************************************************************)
(* The filesystem below BASE_PATH (/var/lib/iris/traffic).                 *)
(*                                                                         *)
(* fs is a set of nodes.  A node is                                        *)
(*   [path, kind, len, bad, zip, members]                                  *)
(* path    : the names from BASE_PATH down to the node                     *)
(* kind    : "file", "dir" or "symlink" (a link to a regular file whose    *)
(*           length and content the node carries: File::open follows it)   *)
(* len     : what metadata().len() reports                                 *)
(* bad     : reading the content fails (an I/O error)                      *)
(* zip     : the content is a ZIP archive that ZipArchive::new accepts     *)
(* members : the archive's members, each [name, size, bad], name being the *)
(*           components of the member's path inside the archive            *)
(* Every proper prefix of a node's path is a directory, whether or not fs  *)
(* holds a node for it.                                                    *)
(***************************************************************************)
IsPrefix(p, q) == Len(p) <= Len(q) /\ SubSeq(q, 1, Len(p)) = p

IsProperPrefix(p, q) == Len(p) < Len(q) /\ SubSeq(q, 1, Len(p)) = p

\* no path twice, and nothing below a node that is not a directory
WellFormed(nodes) ==
    \A n \in nodes : \A m \in nodes :
        /\ (n.path = m.path => n = m)
        /\ (IsProperPrefix(n.path, m.path) => n.kind = "dir")

NodeAt(path) == {n \in fs : n.path = path}

IsDirectory(path) ==
    \/ \E n \in fs : IsProperPrefix(path, n.path)
    \/ \E n \in NodeAt(path) : n.kind = "dir"

\* std::fs::read_dir(path): the entries of a directory, each with its name
\* and its file type
read_dir(path) ==
    IF IsDirectory(path)
    THEN {[name |-> n.path[Len(path) + 1],
           kind |-> IF Len(n.path) = Len(path) + 1 THEN n.kind ELSE "dir"] :
               n \in {m \in fs : IsProperPrefix(path, m.path)}}
    ELSE {}

\* File::open(path): the node opened, if any (a symbolic link is followed)
Open(path) ==
    IF NodeAt(path) # {} THEN NodeAt(path)
    ELSE IF IsDirectory(path)
         THEN {[path |-> path, kind |-> "dir", len |-> 0, bad |-> TRUE,
                zip |-> FALSE, members |-> {}]}
         ELSE {}

\* Read::read_exact over the whole content of an opened node fails
ReadFails(n) == n.kind = "dir" \/ n.bad

\* ZipArchive::new(file) accepts the opened node
IsZip(n) == n.kind # "dir" /\ ~n.bad /\ n.zip

(***************************************************************************)
(* std::path on names and paths.                                           *)
(***************************************************************************)
DOT == <<".">>
DOTDOT == <<".", ".">>

\* the index of the last dot of name, 0 when it has none
LastDot(name) ==
    LET dots == {i \in 1..Len(name) : name[i] = "."}
    IN  IF dots = {} THEN 0 ELSE Max(dots)

\* Path::new(name).file_stem() of a single component
file_stem(name) ==
    IF name = <<>> \/ name = DOTDOT THEN {}
    ELSE IF LastDot(name) <= 1 THEN {name}
    ELSE {SubSeq(name, 1, LastDot(name) - 1)}

\* Path::new(name).extension() of a single component
extension(name) ==
    IF name = <<>> \/ name = DOTDOT THEN {}
    ELSE IF LastDot(name) <= 1 THEN {}
    ELSE {SubSeq(name, LastDot(name) + 1, Len(name))}

\* PathBuf::push of one segment that holds no separator
Push(path, seg) == IF seg = <<>> THEN path ELSE Append(path, seg)

\* PathBuf::pop
Pop(path) == IF path = <<>> THEN path ELSE SubSeq(path, 1, Len(path) - 1)

\* PathBuf::set_extension with a non-empty extension
set_extension(path, ext) ==
    IF path = <<>> THEN path
    ELSE LET name == path[Len(path)]
         IN  IF file_stem(name) = {} THEN path
             ELSE Append(Pop(path),
                         (CHOOSE st \in file_stem(name) : TRUE) \o DOT \o ext)

\* Path::new(zf.name()).file_name() of a member's path
file_name(mpath) ==
    IF mpath = <<>> \/ mpath[Len(mpath)] = DOTDOT THEN {}
    ELSE {mpath[Len(mpath)]}

\* str::splitn(2, '.'): the part before the first dot, and the rest if any
FirstDot(s) ==
    LET dots == {i \in 1..Len(s) : s[i] = "."}
    IN  IF dots = {} THEN 0 ELSE Min(dots)

SplitSid(s) == IF FirstDot(s) = 0 THEN s ELSE SubSeq(s, 1, FirstDot(s) - 1)

SplitExt(s) ==
    IF FirstDot(s) = 0 THEN {} ELSE {SubSeq(s, FirstDot(s) + 1, Len(s))}

(***************************************************************************)
(* Constants of sensor.rs.                                                 *)
(***************************************************************************)
DISTRICT_DEFAULT == <<"t", "m", "s">>
DEXT == <<".", "t", "r", "a", "f", "f", "i", "c">>
EXT == <<"t", "r", "a", "f", "f", "i", "c">>

(***************************************************************************)
(* The listers (sensor.rs 94-211).  A lister is [type, sid].               *)
(***************************************************************************)
DirLister == [type |-> "Dir", sid |-> <<>>]
DateLister == [type |-> "Date", sid |-> <<>>]
SidLister == [type |-> "Sid", sid |-> <<>>]
ExtLister(sid) == [type |-> "Ext", sid |-> sid]

\* FileLister::check of the four listers
check(lister, name, dir) ==
    CASE lister.type = "Dir" -> IF dir THEN {name} ELSE {}
      [] lister.type = "Date" ->
            IF dir
            THEN (IF is_valid_date(name) THEN {name} ELSE {})
            ELSE IF str_len(name) = 16 /\ ends_with(name, DEXT)
                      /\ is_valid_date(str_slice(name, 0, 8))
                 THEN {str_slice(name, 0, 8)}
                 ELSE {}
      [] lister.type = "Sid" ->
            IF ~dir /\ \E e \in extension(name) : sample_file_ext(e) # {}
            THEN file_stem(name)
            ELSE {}
      [] lister.type = "Ext" ->
            IF ~dir /\ file_stem(name) = {lister.sid}
            THEN UNION {sample_file_ext(e) : e \in extension(name)}
            ELSE {}

\* the Vec that pushes, for every element of S, the name f gives it
Collect(S, f(_)) ==
    LET names == UNION {f(e) : e \in S}
    IN  [x \in names |-> Cardinality({e \in S : x \in f(e)})]

\* a slip: the file type is not looked at, symbolic links are listed
list_dir_with_symlinks(lister, path) ==
    LET f(e) == check(lister, e.name, e.kind = "dir")
    IN  Collect(read_dir(path), f)

\* FileLister::list_dir
list_dir(lister, path) ==
    LET f(e) == check(lister, e.name, e.kind = "dir")
    IN  Collect({e \in read_dir(path) : e.kind # "symlink"}, f)

\* FileLister::list_zip
list_zip(lister, path) ==
    LET f(m) == UNION {check(lister, nm, FALSE) : nm \in file_name(m.name)}
        archives == {n \in Open(path) : IsZip(n)}
    IN  Collect(UNION {n.members : n \in archives}, f)

(***************************************************************************)
(* Responses (sensor.rs 39-92, 363-366; main.rs 93-96).                    *)
(*                                                                         *)
(* A Vec is [kind, items, src, len]: a list of names (items: the bag of    *)
(* the names, or their sorted sequence) or the bytes of a sample file      *)
(* (src: the backing they were read from; len: how many).  A body is       *)
(* [fmt, msg, data].                                                       *)
(***************************************************************************)
NoData == [kind |-> "none", items |-> <<>>, src |-> "", len |-> 0]

NamesVec(bag) ==
    [kind |-> "names", items |-> bag, src |-> "", len |-> BagCardinality(bag)]

BytesVec(src, n) == [kind |-> "bytes", items |-> <<>>, src |-> src, len |-> n]

HttpResponse(status, ctype, fmt, msg, data) ==
    [status |-> status, ctype |-> ctype,
     body |-> [fmt |-> fmt, msg |-> msg, data |-> data]]

\* build_json: None for an empty Vec
build_json(arr) == IF arr.len > 0 THEN {arr} ELSE {}

json_response(json) ==
    {HttpResponse(200, "application/json", "json", "", j) : j \in json}

\* JsonOutput::build
JsonOutput(data) == UNION {json_response(build_json(b)) : b \in data}

\* OctetStreamOutput::build
OctetStreamOutput(data) ==
    {HttpResponse(200, "application/octet_stream", "raw", "", b) : b \in data}

\* ResponseBuilder::build of the output B
build(B, data) == IF B = "Json" THEN JsonOutput(data) ELSE OctetStreamOutput(data)

bad_request == HttpResponse(400, "", "msg", "Bad request", NoData)

not_found == HttpResponse(404, "", "msg", "Not Found", NoData)

(***************************************************************************)
(* Ordering of strings (Vec<String>::sort).                                *)
(***************************************************************************)
\* the byte of a character that a valid date can hold
CharCode(c) ==
    IF c \in Digits THEN 48 + DigitVal(c)
    ELSE IF c = "+" THEN 43
    ELSE IF c = "-" THEN 45
    ELSE 0

RECURSIVE StrLess(_, _)
StrLess(a, b) ==
    IF b = <<>> THEN FALSE
    ELSE IF a = <<>> THEN TRUE
    ELSE IF a[1] # b[1] THEN CharCode(a[1]) < CharCode(b[1])
    ELSE StrLess(Tail(a), Tail(b))

\* the elements of a bag in ascending order, each as often as it occurs
RECURSIVE SortBag(_)
SortBag(bag) ==
    IF DOMAIN bag = {} THEN <<>>
    ELSE LET least == CHOOSE x \in DOMAIN bag :
                          \A y \in DOMAIN bag : y = x \/ StrLess(x, y)
         IN  [i \in 1..bag[least] |-> least]
                 \o SortBag([y \in DOMAIN bag \ {least} |-> bag[y]])

(***************************************************************************)
(* Lookups and the reader (sensor.rs 241-296, 348-485).                    *)
(***************************************************************************)
\* BASE_PATH/district/date[..4]/date
DatePath(district, date) ==
    Push(Push(Push(<<>>, district), SubSeq(date, 1, 4)), date)

lookup_dates(district, year) ==
    NamesVec(list_dir(DateLister, Push(Push(<<>>, district), year)))

\* the String that push_str(&date) and push('\n') build from the dates
RECURSIVE push_lines(_)
push_lines(dates) ==
    IF dates = <<>> THEN <<>>
    ELSE Head(dates) \o <<"\n">> \o push_lines(Tail(dates))

handle_dates_text(district, year) ==
    LET dates == lookup_dates(district, year)
    IN  IF dates.len > 0
        THEN {[kind |-> "lines", items |-> SortBag(dates.items), src |-> "",
               len |-> dates.len, text |-> push_lines(SortBag(dates.items))]}
        ELSE {}

handle_did_year(district, year) ==
    IF parse_year(year) # {}
    THEN {HttpResponse(200, "text/plain", "text", "", d) :
              d \in handle_dates_text(district, year)}
    ELSE {}

lookup_sensors(district, date) ==
    LET path == DatePath(district, date)
    IN  NamesVec(list_dir(SidLister, path)
                    (+) list_zip(SidLister, set_extension(path, EXT)))

handle_did_date(district, date) ==
    IF is_valid_date(date)
    THEN json_response(build_json(lookup_sensors(district, date)))
    ELSE {}

\* a slip: the year is not compared with the date
handle_did_year_date_unchecked(district, year, date) ==
    IF is_valid_year_date(year, date)
    THEN handle_did_date(district, date)
    ELSE {}

handle_did_year_date(district, year, date) ==
    IF is_valid_year_date(year, date)
    THEN IF SubSeq(date, 1, 4) = year
         THEN handle_did_date(district, date)
         ELSE {bad_request}
    ELSE {}

lookup_dates_json(district, year) ==
    json_response(build_json(lookup_dates(district, year)))

handle_did_year_json(district, year) ==
    IF parse_year(year) # {} THEN lookup_dates_json(district, year) ELSE {}

\* the bytes of a loose file or of a bundle member, or None
read_path_sid_ext(path0, sid, ext) ==
    LET path == set_extension(Push(path0, sid), ext)
        bundle == set_extension(Pop(path), EXT)
        name == sid \o DOT \o ext
    IN  IF Open(path) # {}
        THEN {BytesVec("loose", file.len) :
                 file \in {f \in Open(path) :
                     is_valid_sample_len(ext, f.len) /\ ~ReadFails(f)}}
        ELSE {BytesVec("bundle", zf.size) :
                 zf \in {m \in UNION {z.members :
                                 z \in {n \in Open(bundle) : IsZip(n)}} :
                     /\ m.name = <<name>>
                     /\ is_valid_sample_len(ext, m.size)
                     /\ ~m.bad}}

handle_did_date_sid_ext(B, district, date, sid, ext) ==
    IF is_valid_date(date) /\ sample_file_ext(ext) # {}
    THEN build(B, read_path_sid_ext(DatePath(district, date), sid, ext))
    ELSE {}

handle_did_date_sidext(B, district, date, sid_ext) ==
    UNION {handle_did_date_sid_ext(B, district, date, SplitSid(sid_ext), ext) :
              ext \in SplitExt(sid_ext)}

lookup_ext(district, date, sid) ==
    LET path == DatePath(district, date)
    IN  NamesVec(list_dir(ExtLister(sid), path)
                    (+) list_zip(ExtLister(sid), set_extension(path, EXT)))

handle_did_date_sid(district, date, sid) ==
    IF is_valid_date(date)
    THEN json_response(build_json(lookup_ext(district, date, sid)))
    ELSE {}

handle_did_year_date_sidext(B, district, year, date, sid_ext) ==
    IF is_valid_year_date(year, date)
    THEN IF SubSeq(date, 1, 4) = year
         THEN handle_did_date_sidext(B, district, date, sid_ext)
         ELSE {bad_request}
    ELSE {}

handle_districts_json == json_response(build_json(NamesVec(list_dir(DirLister, <<>>))))

(***************************************************************************)
(* The overloaded URL shapes (sensor.rs 494-527).  A chain of or_else is   *)
(* evaluated left to right; beside its Option the model keeps the names of *)
(* the interpretations that were evaluated.                                *)
(***************************************************************************)
Try(name, opt) == [res |-> opt, tried |-> <<name>>]

\* a slip: only a 200 response ends the chain, a 400 does not
or_else_past_400(r, s) ==
    IF \E x \in r.res : x.status = 200 THEN r
    ELSE [res |-> IF s.res # {} THEN s.res ELSE r.res,
          tried |-> r.tried \o s.tried]

\* Option::or_else: the closure runs only when the Option is None
or_else(r, s) ==
    IF r.res # {} THEN r
    ELSE [res |-> s.res, tried |-> r.tried \o s.tried]

handle_1_param(year) ==
    Try("did_year", handle_did_year(DISTRICT_DEFAULT, year))

handle_2_params_json(p1, p2) ==
    Try("did_year_json", handle_did_year_json(p1, p2))

handle_2_params(p1, p2) ==
    or_else(or_else(
        Try("did_date", handle_did_date(p1, p2)),
        Try("year_date", handle_did_year_date(DISTRICT_DEFAULT, p1, p2))),
        Try("did_year", handle_did_year(p1, p2)))

handle_3_params_json(p1, p2, p3) ==
    or_else(or_else(
        Try("did_date_sidext", handle_did_date_sidext("Json", p1, p2, p3)),
        Try("did_date_sid", handle_did_date_sid(p1, p2, p3))),
        Try("year_date_sidext",
            handle_did_year_date_sidext("Json", DISTRICT_DEFAULT, p1, p2, p3)))

handle_3_params(p1, p2, p3) ==
    or_else(or_else(
        Try("did_date_sidext", handle_did_date_sidext("Octet", p1, p2, p3)),
        Try("year_date_sidext",
            handle_did_year_date_sidext("Octet", DISTRICT_DEFAULT, p1, p2, p3))),
        Try("did_year_date", handle_did_year_date(p1, p2, p3)))

(***************************************************************************)
(* main.rs: the routes of the sensor archive.  A handler answers with the  *)
(* response of the sensor module, or with 404 when that is None.           *)
(***************************************************************************)
Idle == [fn |-> "idle"]

Respond(r) ==
    [done  |-> TRUE,
     panic |-> FALSE,
     http  |-> IF r.res = {} THEN not_found ELSE CHOOSE x \in r.res : TRUE,
     tried |-> r.tried]

(***************************************************************************)
(* Names used by the archive and the requests of the model.                *)
(***************************************************************************)
Y2020 == <<"2", "0", "2", "0">>
Y2021 == <<"2", "0", "2", "1">>
D20200101 == <<"2", "0", "2", "0", "0", "1", "0", "1">>
D20200102 == <<"2", "0", "2", "0", "0", "1", "0", "2">>
D20210101 == <<"2", "0", "2", "1", "0", "1", "0", "1">>
S100 == <<"1", "0", "0">>
S200 == <<"2", "0", "0">>
S500 == <<"5", "0", "0">>
S600 == <<"6", "0", "0">>
V30 == <<"v", "3", "0">>
C30 == <<"c", "3", "0">>
SUB == <<"s", "u", "b">>
README == <<"R", "E", "A", "D", "M", "E">>

File(path, len) ==
    [path |-> path, kind |-> "file", len |-> len, bad |-> FALSE,
     zip |-> FALSE, members |-> {}]

BadFile(path, len) == [File(path, len) EXCEPT !.bad = TRUE]

Link(path, len) == [File(path, len) EXCEPT !.kind = "symlink"]

Dir(path) ==
    [path |-> path, kind |-> "dir", len |-> 0, bad |-> TRUE,
     zip |-> FALSE, members |-> {}]

Bundle(path, members) ==
    [path |-> path, kind |-> "file", len |-> 1000, bad |-> FALSE,
     zip |-> TRUE, members |-> members]

Member(mpath, size) == [name |-> mpath, size |-> size, bad |-> FALSE]

\* the archive nodes the writer may create while requests are dispatched
DispatchNodes ==
    { File(<<DISTRICT_DEFAULT, Y2020, D20200101, S100 \o DOT \o V30>>, 2880),
      File(<<DISTRICT_DEFAULT, Y2020, D20200101, S100 \o DOT \o V30>>, 100),
      Bundle(<<DISTRICT_DEFAULT, Y2020, D20200101 \o DEXT>>,
             {Member(<<S100 \o DOT \o V30>>, 2880)}),
      Dir(<<DISTRICT_DEFAULT, Y2020, D20200101>>),
      File(<<DISTRICT_DEFAULT, Y2021, D20210101, S100 \o DOT \o V30>>, 2880),
      File(<<Y2020, Y2021, D20210101, S100 \o DOT \o V30>>, 2880),
      File(<<Y2020, Y2020, D20200101, S200 \o DOT \o C30>>, 5760) }

Seg1 == {DISTRICT_DEFAULT, Y2020}
Seg2 == {Y2020, D20200101, D20210101}
Seg3 == {S100 \o DOT \o V30, S100, D20200101, D20210101}

(***************************************************************************)
(* The external writer of the archive.                                     *)
(***************************************************************************)
Create(universe) ==
    /\ Cardinality(fs) < MaxNodes
    /\ \E n \in universe \ fs :
          /\ WellFormed(fs \cup {n})
          /\ fs' = fs \cup {n}
    /\ req' = Idle
    /\ resp' = Pending
    /\ UNCHANGED cfg

Delete ==
    /\ \E n \in fs : fs' = fs \ {n}
    /\ req' = Idle
    /\ resp' = Pending
    /\ UNCHANGED cfg

(***************************************************************************)
(* The request handlers of main.rs.  The server holds no state between    *)
(* requests: a request is served from the archive as it is, its response  *)
(* is written (Finish), and the next request starts from Idle.            *)
(***************************************************************************)
Finish ==
    /\ req # Idle
    /\ req' = Idle
    /\ resp' = Pending
    /\ UNCHANGED <<fs, cfg>>

handle_districts ==
    /\ req = Idle
    /\ req' = [fn |-> "handle_districts", p1 |-> <<>>, p2 |-> <<>>, p3 |-> <<>>]
    /\ resp' = Respond(Try("districts", handle_districts_json))
    /\ UNCHANGED <<fs, cfg>>

handle_1 ==
    \E p1 \in Seg1 \cup Seg2 :
        /\ req = Idle
        /\ req' = [fn |-> "handle_1", p1 |-> p1, p2 |-> <<>>, p3 |-> <<>>]
        /\ resp' = Respond(handle_1_param(p1))
        /\ UNCHANGED <<fs, cfg>>

handle_2_json ==
    \E p1 \in Seg1, p2 \in Seg2 :
        /\ req = Idle
        /\ req' = [fn |-> "handle_2_json", p1 |-> p1, p2 |-> p2, p3 |-> <<>>]
        /\ resp' = Respond(handle_2_params_json(p1, p2))
        /\ UNCHANGED <<fs, cfg>>

handle_2 ==
    \E p1 \in Seg1, p2 \in Seg2 :
        /\ req = Idle
        /\ req' = [fn |-> "handle_2", p1 |-> p1, p2 |-> p2, p3 |-> <<>>]
        /\ resp' = Respond(handle_2_params(p1, p2))
        /\ UNCHANGED <<fs, cfg>>

handle_3_json ==
    \E p1 \in Seg1, p2 \in Seg2, p3 \in Seg3 :
        /\ req = Idle
        /\ req' = [fn |-> "handle_3_json", p1 |-> p1, p2 |-> p2, p3 |-> p3]
        /\ resp' = Respond(handle_3_params_json(p1, p2, p3))
        /\ UNCHANGED <<fs, cfg>>

handle_3 ==
    \E p1 \in Seg1, p2 \in Seg2, p3 \in Seg3 :
        /\ req = Idle
        /\ req' = [fn |-> "handle_3", p1 |-> p1, p2 |-> p2, p3 |-> p3]
        /\ resp' = Respond(handle_3_params(p1, p2, p3))
        /\ UNCHANGED <<fs, cfg>>

Init ==
    /\ fs = {}
    /\ cfg = {}
    /\ req = Idle
    /\ resp = Pending

Next ==
    \/ Create(DispatchNodes)
    \/ Delete
    \/ handle_districts
    \/ handle_1
    \/ handle_2_json
    \/ handle_2
    \/ handle_3_json
    \/ handle_3
    \/ Finish

Spec == Init /\ [][Next]_vars

(***************************************************************************)
(* The hybrid reader applied to one (district, date, sid, ext), the date   *)
(* and the extension valid as handle_did_date_sid_ext has checked them.    *)
(***************************************************************************)
ReadNodes ==
    LET dir == <<DISTRICT_DEFAULT, Y2020, D20200101>>
        bundle == <<DISTRICT_DEFAULT, Y2020, D20200101 \o DEXT>>
    IN  { File(Append(dir, S100 \o DOT \o V30), 2880),
          File(Append(dir, S100 \o DOT \o V30), 100),
          BadFile(Append(dir, S100 \o DOT \o V30), 2880),
          Link(Append(dir, S100 \o DOT \o V30), 2880),
          File(Append(dir, S100 \o DOT \o VLOG), 7),
          Dir(dir),
          Bundle(bundle, {Member(<<S100 \o DOT \o V30>>, 2880)}),
          Bundle(bundle, {Member(<<S100 \o DOT \o V30>>, 100),
                          Member(<<S200 \o DOT \o V30>>, 2880)}),
          Bundle(bundle, {Member(<<SUB, S100 \o DOT \o V30>>, 2880)}),
          [Bundle(bundle, {}) EXCEPT !.zip = FALSE] }

read_sample ==
    /\ req = Idle
    /\ \E district \in {DISTRICT_DEFAULT}, date \in {D20200101},
          sid \in {S100, S200}, ext \in {V30, C30, VLOG} :
          /\ is_valid_date(date) /\ sample_file_ext(ext) # {}
          /\ req' = [fn |-> "read_path_sid_ext", district |-> district,
                     date |-> date, sid |-> sid, ext |-> ext]
          /\ resp' = [done |-> TRUE,
                      val |-> read_path_sid_ext(DatePath(district, date), sid, ext)]
    /\ UNCHANGED <<fs, cfg>>

NextRead ==
    \/ Create(ReadNodes)
    \/ Delete
    \/ read_sample
    \/ Finish

SpecRead == Init /\ [][NextRead]_vars

(***************************************************************************)
(* The two hybrid listings applied to one (district, date[, sid]), the     *)
(* date valid as handle_did_date and handle_did_date_sid have checked it.  *)
(***************************************************************************)
ListNodes ==
    LET dir == <<DISTRICT_DEFAULT, Y2020, D20200101>>
        bundle == <<DISTRICT_DEFAULT, Y2020, D20200101 \o DEXT>>
    IN  { File(Append(dir, S100 \o DOT \o V30), 2880),
          File(Append(dir, S100 \o DOT \o C30), 5760),
          Link(Append(dir, S200 \o DOT \o V30), 2880),
          File(Append(dir, README), 10),
          File(dir \o <<S500 \o DOT \o V30, README>>, 10),
          File(<<DISTRICT_DEFAULT, Y2020, D20200102, S100 \o DOT \o V30>>, 2880),
          Bundle(bundle, {Member(<<S100 \o DOT \o V30>>, 2880),
                          Member(<<S500 \o DOT \o V30>>, 2880)}),
          Bundle(bundle, {Member(<<SUB, S600 \o DOT \o V30>>, 2880),
                          Member(<<S600 \o DOT \o C30>>, 5760),
                          Member(<<README>>, 10)}),
          [Bundle(bundle, {Member(<<S100 \o DOT \o V30>>, 2880)})
              EXCEPT !.zip = FALSE] }

list_sensors ==
    /\ req = Idle
    /\ \E district \in {DISTRICT_DEFAULT}, date \in {D20200101, D20200102} :
          /\ is_valid_date(date)
          /\ req' = [fn |-> "lookup_sensors", district |-> district,
                     date |-> date, sid |-> <<>>]
          /\ resp' = [done |-> TRUE, val |-> lookup_sensors(district, date)]
    /\ UNCHANGED <<fs, cfg>>

list_ext ==
    /\ req = Idle
    /\ \E district \in {DISTRICT_DEFAULT}, date \in {D20200101, D20200102},
          sid \in {S100, S200, S500, S600} :
          /\ is_valid_date(date)
          /\ req' = [fn |-> "lookup_ext", district |-> district,
                     date |-> date, sid |-> sid]
          /\ resp' = [done |-> TRUE, val |-> lookup_ext(district, date, sid)]
    /\ UNCHANGED <<fs, cfg>>

NextList ==
    \/ Create(ListNodes)
    \/ Delete
    \/ list_sensors
    \/ list_ext
    \/ Finish

SpecList == Init /\ [][NextList]_vars

(***************************************************************************)
(* metro.rs: the configuration snapshots.                                  *)
(*                                                                         *)
(* cfg is a set of files metro_config_<date>.xml.gz, each                  *)
(*   [date, gz, parses, ctx, full, corridors]                              *)
(* gz        : the file decompresses to a string                           *)
(* parses    : Parser::parse_string returns a document; it returns an      *)
(*             error for content that is not well-formed XML               *)
(* ctx       : Context::new returns an XPath context for the document      *)
(* full      : the document deserialises as a TmsConfig                    *)
(* corridors : the corridor elements in document order, each               *)
(*             [route, dir, ok], ok when it deserialises as a Corridor     *)
(* Routes and directions hold no quote character.                          *)
(***************************************************************************)
metro_is_valid_date(date) ==
    /\ str_len(date) = 8
    /\ parse_year(str_slice(date, 0, 4)) # {}
    /\ parse_month(str_slice(date, 4, 6)) # {}
    /\ parse_day(str_slice(date, 6, 8)) # {}

\* the decompressed content of the snapshot of a date, or None
get_xml_file(date) == {f \in cfg : f.date = date /\ f.gz}

\* [panic, val]: the two unwrap()s panic on an Err; otherwise val is the
\* first corridor element with the route and the direction, or None
get_corridor_on_date(metro_file_option, rte, dir) ==
    IF \E doc \in metro_file_option : ~doc.parses \/ ~doc.ctx
    THEN [panic |-> TRUE, val |-> {}]
    ELSE [panic |-> FALSE,
          val |-> UNION {
             LET hits == {k \in DOMAIN doc.corridors :
                             doc.corridors[k].route = rte
                                 /\ doc.corridors[k].dir = dir}
             IN  IF hits # {} THEN {doc.corridors[Min(hits)]} ELSE {} :
             doc \in metro_file_option}]

xml_response(xml) ==
    {HttpResponse(200, "application/xml", "xml", "", NoData) : x \in xml}

metro_json_response(json) ==
    {HttpResponse(200, "application/json", "json", "", NoData) : j \in json}

\* the whole document as JSON, None when it is no TmsConfig
build_full_json(xmldoc) == {doc \in xmldoc : doc.full}

\* a corridor element as JSON, None when it is no Corridor
metro_build_json(xmldoc) == {c \in xmldoc : c.ok}

handle_1_param_xml(p1) ==
    IF metro_is_valid_date(p1) THEN xml_response(get_xml_file(p1)) ELSE {}

handle_1_param_json(p1) ==
    IF metro_is_valid_date(p1)
    THEN metro_json_response(build_full_json(get_xml_file(p1)))
    ELSE {}

handle_3_params_xml(p1, p2, p3) ==
    IF metro_is_valid_date(p1)
    THEN LET c == get_corridor_on_date(get_xml_file(p1), p2, p3)
         IN  [panic |-> c.panic, res |-> xml_response(c.val)]
    ELSE [panic |-> FALSE, res |-> {}]

metro_handle_3_params_json(p1, p2, p3) ==
    IF metro_is_valid_date(p1)
    THEN LET c == get_corridor_on_date(get_xml_file(p1), p2, p3)
         IN  [panic |-> c.panic,
              res |-> metro_json_response(metro_build_json(c.val))]
    ELSE [panic |-> FALSE, res |-> {}]

NoResponse == HttpResponse(0, "", "none", "", NoData)

\* the response of a handler that may have panicked
RespondOrPanic(r) ==
    IF r.panic
    THEN [done |-> TRUE, panic |-> TRUE, http |-> NoResponse, tried |-> <<>>]
    ELSE Respond([res |-> r.res, tried |-> <<>>])

D20200615 == <<"2", "0", "2", "0", "0", "6", "1", "5">>
D20200616 == <<"2", "0", "2", "0", "0", "6", "1", "6">>
R35W == <<"3", "5", "W">>
R94 == <<"9", "4">>
NB == <<"N", "B">>
EB == <<"E", "B">>

Snapshot(date, corridors) ==
    [date |-> date, gz |-> TRUE, parses |-> TRUE, ctx |-> TRUE, full |-> TRUE,
     corridors |-> corridors]

Snapshots ==
    LET two == << [route |-> R35W, dir |-> NB, ok |-> TRUE],
                  [route |-> R94, dir |-> EB, ok |-> FALSE] >>
        one == << [route |-> R94, dir |-> EB, ok |-> TRUE] >>
    IN  { Snapshot(D20200615, two),
          [Snapshot(D20200615, <<>>) EXCEPT !.parses = FALSE, !.full = FALSE],
          [Snapshot(D20200615, two) EXCEPT !.ctx = FALSE],
          [Snapshot(D20200615, <<>>) EXCEPT
              !.gz = FALSE, !.parses = FALSE, !.full = FALSE],
          [Snapshot(D20200615, two) EXCEPT !.full = FALSE],
          Snapshot(D20200616, one),
          [Snapshot(D20200616, <<>>) EXCEPT !.parses = FALSE, !.full = FALSE] }

MetroDates == {D20200615, D20200616, Y2020}

CreateSnapshot ==
    /\ Cardinality(cfg) < MaxSnapshots
    /\ \E f \in Snapshots :
          /\ \A g \in cfg : g.date # f.date
          /\ cfg' = cfg \cup {f}
    /\ req' = Idle
    /\ resp' = Pending
    /\ UNCHANGED fs

DeleteSnapshot ==
    /\ \E f \in cfg : cfg' = cfg \ {f}
    /\ req' = Idle
    /\ resp' = Pending
    /\ UNCHANGED fs

handle_metro_1_xml ==
    /\ req = Idle
    /\ \E p1 \in MetroDates :
          /\ req' = [fn |-> "handle_metro_1_xml", p1 |-> p1, p2 |-> <<>>,
                     p3 |-> <<>>]
          /\ resp' = Respond([res |-> handle_1_param_xml(p1), tried |-> <<>>])
    /\ UNCHANGED <<fs, cfg>>

handle_metro_1_json ==
    /\ req = Idle
    /\ \E p1 \in MetroDates :
          /\ req' = [fn |-> "handle_metro_1_json", p1 |-> p1, p2 |-> <<>>,
                     p3 |-> <<>>]
          /\ resp' = Respond([res |-> handle_1_param_json(p1), tried |-> <<>>])
    /\ UNCHANGED <<fs, cfg>>

handle_metro_3_xml ==
    /\ req = Idle
    /\ \E p1 \in MetroDates, p2 \in {R35W, R94}, p3 \in {NB, EB} :
          /\ req' = [fn |-> "handle_metro_3_xml", p1 |-> p1, p2 |-> p2,
                     p3 |-> p3]
          /\ resp' = RespondOrPanic(handle_3_params_xml(p1, p2, p3))
    /\ UNCHANGED <<fs, cfg>>

handle_metro_3_json ==
    /\ req = Idle
    /\ \E p1 \in MetroDates, p2 \in {R35W, R94}, p3 \in {NB, EB} :
          /\ req' = [fn |-> "handle_metro_3_json", p1 |-> p1, p2 |-> p2,
                     p3 |-> p3]
          /\ resp' = RespondOrPanic(metro_handle_3_params_json(p1, p2, p3))
    /\ UNCHANGED <<fs, cfg>>

NextMetro ==
    \/ CreateSnapshot
    \/ DeleteSnapshot
    \/ handle_metro_1_xml
    \/ handle_metro_1_json
    \/ handle_metro_3_xml
    \/ handle_metro_3_json
    \/ Finish

SpecMetro == Init /\ [][NextMetro]_vars

(***************************************************************************)
(* Inputs of the pure functions.                                           *)
(***************************************************************************)
ExtAlphabet == {"v", "m", "c", "s", "x", "1", "5", "0"}

TypeTokens == {SAMPLE_TYPES[i].tok : i \in DOMAIN SAMPLE_TYPES}
PeriodTokens == {SAMPLE_PERIODS[i].tok : i \in DOMAIN SAMPLE_PERIODS}

\* every <type><period> extension of the code's two tables
CodeConcats == {t \o p : t \in TypeTokens, p \in PeriodTokens}

\* the decimal string of a natural number
RECURSIVE ToDecimal(_)
ToDecimal(n) ==
    LET last == <<CHOOSE c \in Digits : DigitVal(c) = n % 10>>
    IN  IF n < 10 THEN last ELSE ToDecimal(n \div 10) \o last

\* the sample periods (seconds) the specification lists in its section 4.2
ListedPeriods ==
    {5, 6, 10, 15, 20, 30, 60, 90, 120, 240, 300, 600, 900, 1200, 1800,
     3600, 7200, 14400, 28800, 43200, 86400}

\* every <type><period> extension over the listed periods
ListedConcats == {t \o ToDecimal(p) : t \in TypeTokens, p \in ListedPeriods}

V17280 == <<"v", "1", "7", "2", "8", "0">>

ExtInputs ==
    AllStrings(ExtAlphabet, MaxExtLen) \cup CodeConcats \cup ListedConcats
        \cup {VLOG, V17280}

LenExtInputs ==
    AllStrings(ExtAlphabet, MaxLenExtLen) \cup CodeConcats \cup ListedConcats
        \cup {VLOG, V17280}

LenInputs ==
    {SAMPLE_TYPES[i].len * SAMPLE_PERIODS[j].len :
        i \in DOMAIN SAMPLE_TYPES, j \in DOMAIN SAMPLE_PERIODS}
    \cup {b * (86400 \div p) : b \in {1, 2}, p \in ListedPeriods}
    \cup {0, 2879, 2881, 17279, 17281}

YearParts ==
    { <<"1", "8", "9", "9">>, <<"1", "9", "0", "0">>, <<"2", "0", "2", "0">>,
      <<"9", "9", "9", "9">>, <<"+", "9", "9", "9">>, <<"-", "9", "9", "9">>,
      <<"2", "0", "a", "0">>, <<"0", "9", "9", "9">>, <<"9", "9", "9">>,
      <<"1", "0", "0", "0", "0">> }

MonthParts ==
    { <<"0", "0">>, <<"0", "1">>, <<"0", "2">>, <<"1", "2">>, <<"1", "3">>,
      <<"+", "1">>, <<"-", "1">>, <<"1", "a">>, <<"1">> }

DayParts ==
    { <<"0", "0">>, <<"0", "1">>, <<"3", "0">>, <<"3", "1">>, <<"3", "2">>,
      <<"+", "1">>, <<"-", "0">>, <<" ", "1">>, <<"1">> }

DateInputs == {y \o m \o d : y \in YearParts, m \in MonthParts, d \in DayParts}

(***************************************************************************)
(* sample_file_ext applied to every extension of ExtInputs.                *)
(***************************************************************************)
InitExt ==
    /\ fs = {}
    /\ cfg = {}
    /\ req \in {[fn |-> "sample_file_ext", ext |-> e] : e \in ExtInputs}
    /\ resp = Pending

ApplySampleFileExt ==
    /\ req.fn = "sample_file_ext"
    /\ resp = Pending
    /\ resp' = [done   |-> TRUE,
                val    |-> sample_file_ext(req.ext),
                prefix |-> {t.tok : t \in sample_type(req.ext)},
                suffix |-> {p.tok : p \in sample_period(req.ext)}]
    /\ UNCHANGED <<fs, cfg, req>>

NextExt == ApplySampleFileExt

SpecExt == InitExt /\ [][NextExt]_vars

(***************************************************************************)
(* is_valid_sample_len applied to every (extension, length) pair.          *)
(***************************************************************************)
InitLen ==
    /\ fs = {}
    /\ cfg = {}
    /\ req \in {[fn |-> "is_valid_sample_len", ext |-> e, len |-> n] :
                    e \in LenExtInputs, n \in LenInputs}
    /\ resp = Pending

ApplyIsValidSampleLen ==
    /\ req.fn = "is_valid_sample_len"
    /\ resp = Pending
    /\ resp' = [done |-> TRUE,
                ext  |-> sample_file_ext(req.ext),
                val  |-> is_valid_sample_len(req.ext, req.len)]
    /\ UNCHANGED <<fs, cfg, req>>

NextLen == ApplyIsValidSampleLen

SpecLen == InitLen /\ [][NextLen]_vars

(***************************************************************************)
(* is_valid_date applied to every string of DateInputs.                    *)
(***************************************************************************)
InitDate ==
    /\ fs = {}
    /\ cfg = {}
    /\ req \in {[fn |-> "is_valid_date", date |-> d] : d \in DateInputs}
    /\ resp = Pending

ApplyIsValidDate ==
    /\ req.fn = "is_valid_date"
    /\ resp = Pending
    /\ resp' = [done |-> TRUE, val |-> is_valid_date(req.date)]
    /\ UNCHANGED <<fs, cfg, req>>

NextDate == ApplyIsValidDate

SpecDate == InitDate /\ [][NextDate]_vars

(***************************************************************************)
(* Claims about the grammar and the validators.                            *)
(***************************************************************************)
\* bytes per sample of a type token, by the table of section 4.2
ListedBytes(t) ==
    IF t \in {<<"o">>, <<"c">>, <<"p", "r">>} THEN 2 ELSE 1

\* C3: for every type token t and every listed period p, the extension
\* t||p is accepted by sample_file_ext, and is_valid_sample_len accepts
\* for it the length bytes(t) * (86400 / p), i.e. its samples per day are
\* 86400 / p.
C3_ListedPeriodsAccepted ==
    (resp.done /\ req.fn = "is_valid_sample_len") =>
        \A t \in TypeTokens : \A p \in ListedPeriods :
            (req.ext = t \o ToDecimal(p)
                /\ req.len = ListedBytes(t) * (86400 \div p))
            => (resp.ext = {req.ext} /\ resp.val = TRUE)

\* the longest type token that is a prefix of ext
LongestTypePrefix(ext) ==
    LET m == {t \in TypeTokens : starts_with(ext, t)}
    IN  {t \in m : \A u \in m : Len(u) <= Len(t)}

\* the maximal run of decimal digits that ends ext
RECURSIVE NumericTail(_)
NumericTail(ext) ==
    IF ext = <<>> \/ ext[Len(ext)] \notin Digits THEN <<>>
    ELSE Append(NumericTail(SubSeq(ext, 1, Len(ext) - 1)), ext[Len(ext)])

IsConcat(ext) == \E t \in TypeTokens : \E p \in PeriodTokens : ext = t \o p

\* C4: sample_file_ext(ext) accepts iff ext is "vlog" or the concatenation
\* of one type token and one period token; for such a concatenation the
\* prefix the scan chose is the longest matching type token and the suffix
\* it chose is the whole numeric tail.
C4_ExtGrammar ==
    (resp.done /\ req.fn = "sample_file_ext") =>
        /\ resp.val \subseteq {req.ext}
        /\ (resp.val # {}) <=> (req.ext = VLOG \/ IsConcat(req.ext))
        /\ IsConcat(req.ext) =>
              /\ resp.prefix = LongestTypePrefix(req.ext)
              /\ resp.suffix = {NumericTail(req.ext)}

\* C4 witness: "vmc15" is accepted with prefix vmc and suffix 15.
C4_Witness ==
    /\ resp.done /\ req.fn = "sample_file_ext"
    /\ req.ext = <<"v", "m", "c", "1", "5">>
    /\ resp.val = {req.ext}
    /\ resp.prefix = {<<"v", "m", "c">>}
    /\ resp.suffix = {<<"1", "5">>}

\* C5: for an accepted extension other than "vlog" a length is valid iff it
\* is bytes_per_sample(prefix) * samples_per_day(suffix), the samples per
\* day of a period being 86400 / period; for "vlog" every length is valid;
\* for an extension that is not accepted none is.
C5_LenIffProduct ==
    (resp.done /\ req.fn = "is_valid_sample_len") =>
        /\ req.ext = VLOG => resp.val
        /\ (req.ext # VLOG /\ resp.ext # {}) =>
              (resp.val <=>
                 \E t \in TypeTokens : \E p \in PeriodTokens :
                    /\ req.ext = t \o p
                    /\ req.len = ListedBytes(t) * (86400 \div DigitsValue(p)))
        /\ resp.ext = {} => ~resp.val

\* C5 witness: "o5" (two bytes per sample) with length 34560 is valid.
C5_Witness ==
    /\ resp.done /\ req.fn = "is_valid_sample_len"
    /\ req.ext = <<"o", "5">> /\ req.len = 34560
    /\ resp.val

\* s is 8 decimal digits: a year 1900..9999, a month 1..12, a day 1..31
IsEightDigitDate(s) ==
    /\ Len(s) = 8
    /\ \A i \in 1..8 : s[i] \in Digits
    /\ DigitsValue(SubSeq(s, 1, 4)) \in 1900..9999
    /\ DigitsValue(SubSeq(s, 5, 6)) \in 1..12
    /\ DigitsValue(SubSeq(s, 7, 8)) \in 1..31

\* C9: is_valid_date(s) holds iff s is exactly 8 decimal digits with the
\* year in 1900..9999, the month in 1..12 and the day in 1..31; no string
\* with a non-digit character is accepted.
C9_DateIffEightDigits ==
    (resp.done /\ req.fn = "is_valid_date") =>
        (resp.val <=> IsEightDigitDate(req.date))

(***************************************************************************)
(* Claims about the dispatch, the reader, the listings and the snapshots.  *)
(***************************************************************************)
Last(seq) == seq[Len(seq)]

\* C1: a request /P1/P2/P3.json with P1 a district, P2 a validly formed
\* year and P3 a validly formed date that does not start with P2 is
\* answered 400 "Bad request".
C1_JsonMismatchIs400 ==
    (resp.done /\ req.fn = "handle_3_json"
        /\ IsDirectory(<<req.p1>>)
        /\ parse_year(req.p2) # {}
        /\ is_valid_date(req.p3)
        /\ SubSeq(req.p3, 1, 4) # req.p2)
    => (resp.http.status = 400 /\ resp.http.body.msg = "Bad request")

\* the loose file <date>/<sid>.<ext> of a read produces a result
LooseResult(r) ==
    \E n \in fs :
        /\ n.path = <<r.district, SubSeq(r.date, 1, 4), r.date,
                      r.sid \o DOT \o r.ext>>
        /\ is_valid_sample_len(r.ext, n.len)
        /\ ~ReadFails(n)

\* the members <sid>.<ext> of the bundle <date>.traffic of a read that have
\* a grammar-valid declared size
BundleResult(r) ==
    {m \in UNION {n.members : n \in {b \in fs :
                        /\ b.path = <<r.district, SubSeq(r.date, 1, 4),
                                      r.date \o DEXT>>
                        /\ IsZip(b)}} :
        /\ m.name = <<r.sid \o DOT \o r.ext>>
        /\ is_valid_sample_len(r.ext, m.size)
        /\ ~m.bad}

\* C2: whenever the loose file produces no result (missing, wrong length
\* or unreadable) the reader returns the bytes of the bundle member when
\* that exists with a valid size; None only when both backings fail.
C2_FallsBackToBundle ==
    (resp.done /\ req.fn = "read_path_sid_ext") =>
        /\ (~LooseResult(req) /\ BundleResult(req) # {}) =>
              resp.val = {BytesVec("bundle", m.size) : m \in BundleResult(req)}
        /\ resp.val = {} => (~LooseResult(req) /\ BundleResult(req) = {})

\* the lister a listing request uses
ListerOf(r) == IF r.fn = "lookup_sensors" THEN SidLister ELSE ExtLister(r.sid)

\* the names the predicate gives for the entries of directory D that are
\* not symbolic links
NamesOfDirectory(r) ==
    LET dir == <<r.district, SubSeq(r.date, 1, 4), r.date>>
    IN  UNION {check(ListerOf(r), n.path[4], Len(n.path) > 4 \/ n.kind = "dir") :
                  n \in {m \in fs : /\ Len(m.path) >= 4
                                    /\ SubSeq(m.path, 1, 3) = dir
                                    /\ (Len(m.path) = 4 => m.kind # "symlink")}}

\* the names the predicate gives for the base names of the members of D.traffic
NamesOfBundle(r) ==
    LET bundle == <<r.district, SubSeq(r.date, 1, 4), r.date \o DEXT>>
    IN  UNION {check(ListerOf(r), Last(m.name), FALSE) :
                  m \in UNION {n.members : n \in {b \in fs :
                                   b.path = bundle /\ IsZip(b)}}}

\* C6: the sensor listing and the extension listing of a date hold exactly
\* the names the lister's predicate gives for the non-symlink entries of
\* the directory and for the base names of the bundle's members.
C6_ListingIsUnion ==
    (resp.done /\ req.fn \in {"lookup_sensors", "lookup_ext"}) =>
        DOMAIN resp.val.items = NamesOfDirectory(req) \cup NamesOfBundle(req)

\* C6 witness: a sensor listing that draws sensor 100 from the directory
\* and sensor 500 from the bundle while the directory holds the symbolic
\* link 200.v30, which is not listed.
C6_Witness ==
    /\ resp.done /\ req.fn = "lookup_sensors"
    /\ \E n \in fs : n.kind = "symlink" /\ n.path[4] = S200 \o DOT \o V30
    /\ DOMAIN resp.val.items = {S100, S500}
    /\ NamesOfDirectory(req) = {S100}
    /\ S500 \in NamesOfBundle(req)

\* C7: a 200 response produced by an interpretation that reads one segment
\* as a year and another as a date is produced only if the date starts
\* with the year.
C7_ServedOnlyIfYearMatches ==
    (resp.done /\ req.fn \in {"handle_2", "handle_3", "handle_3_json"}
        /\ resp.http.status = 200) =>
        /\ Last(resp.tried) \in {"year_date", "year_date_sidext"} =>
              SubSeq(req.p2, 1, 4) = req.p1
        /\ Last(resp.tried) = "did_year_date" =>
              SubSeq(req.p3, 1, 4) = req.p2

\* C7 witness: /2020/20200101 served by the (default district, year, date)
\* interpretation.
C7_Witness ==
    /\ resp.done /\ req.fn = "handle_2"
    /\ resp.http.status = 200
    /\ Last(resp.tried) = "year_date"
    /\ req.p1 = Y2020 /\ req.p2 = D20200101

\* the interpretations of an overloaded shape, in the order of the
\* dispatch table, each with the segments it reads as year and date
Interpretations(r) ==
    CASE r.fn = "handle_2" ->
            << [res |-> handle_did_date(r.p1, r.p2), yd |-> <<>>],
               [res |-> handle_did_year_date(DISTRICT_DEFAULT, r.p1, r.p2),
                yd |-> <<r.p1, r.p2>>],
               [res |-> handle_did_year(r.p1, r.p2), yd |-> <<>>] >>
      [] r.fn = "handle_3_json" ->
            << [res |-> handle_did_date_sidext("Json", r.p1, r.p2, r.p3),
                yd |-> <<>>],
               [res |-> handle_did_date_sid(r.p1, r.p2, r.p3), yd |-> <<>>],
               [res |-> handle_did_year_date_sidext("Json", DISTRICT_DEFAULT,
                                                    r.p1, r.p2, r.p3),
                yd |-> <<r.p1, r.p2>>] >>
      [] r.fn = "handle_3" ->
            << [res |-> handle_did_date_sidext("Octet", r.p1, r.p2, r.p3),
                yd |-> <<>>],
               [res |-> handle_did_year_date_sidext("Octet", DISTRICT_DEFAULT,
                                                    r.p1, r.p2, r.p3),
                yd |-> <<r.p1, r.p2>>],
               [res |-> handle_did_year_date(r.p1, r.p2, r.p3),
                yd |-> <<r.p2, r.p3>>] >>

\* C8: the response of an overloaded shape is the result of the first
\* interpretation, in the order of the dispatch table, that is defined;
\* no later interpretation is evaluated; a validly shaped year and date
\* that do not agree make an interpretation defined as 400; an empty list
\* is never a result; when no interpretation is defined the response is
\* 404 "Not Found".
C8_FirstDefinedWins ==
    (resp.done /\ req.fn \in {"handle_2", "handle_3", "handle_3_json"}) =>
        LET I == Interpretations(req)
            defined == {i \in 1..3 : I[i].res # {}}
        IN  /\ defined = {} =>
                  /\ resp.http.status = 404
                  /\ resp.http.body.msg = "Not Found"
                  /\ Len(resp.tried) = 3
            /\ defined # {} =>
                  /\ resp.http \in I[Min(defined)].res
                  /\ Len(resp.tried) = Min(defined)
            /\ \A i \in 1..3 :
                  /\ (I[i].yd # <<>> /\ parse_year(I[i].yd[1]) # {}
                        /\ is_valid_date(I[i].yd[2])
                        /\ SubSeq(I[i].yd[2], 1, 4) # I[i].yd[1])
                     => I[i].res = {bad_request}
                  /\ \A x \in I[i].res :
                        x.status = 200 => x.body.data.len > 0

\* C8 witness: /2020/20210101/100.v30 is answered 400 by the second
\* interpretation and the third is not evaluated.
C8_Witness ==
    /\ resp.done /\ req.fn = "handle_3"
    /\ req.p1 = Y2020 /\ req.p2 = D20210101
    /\ resp.http = bad_request
    /\ resp.tried = <<"did_date_sidext", "year_date_sidext">>

\* C10: a corridor request for a valid date whose snapshot decompresses
\* but does not parse (or has no XPath context) is answered 404, and the
\* handler does not panic.
C10_ParseErrorIs404 ==
    (resp.done /\ req.fn \in {"handle_metro_3_xml", "handle_metro_3_json"}
        /\ metro_is_valid_date(req.p1)
        /\ \E f \in cfg : f.date = req.p1 /\ f.gz /\ (~f.parses \/ ~f.ctx))
    => (~resp.panic /\ resp.http.status = 404)

(***************************************************************************)
(* A request against a changing archive (sensor.rs 100-141, 408-445).      *)
(*                                                                         *)
(* Here a request is served one filesystem call at a time and the external *)
(* writer may act between any two calls.  req holds the request-local      *)
(* state: pc (the next call), fd (the file opened, an Option), checked     *)
(* (the length that passed is_valid_sample_len), zip (the members read     *)
(* from the central directory), todo (the entries still to visit) and acc  *)
(* (the Vec of names pushed so far).  An open file is                      *)
(*   [node, live]                                                          *)
(* node : the file as seen through the descriptor                          *)
(* live : the path still names that file; after an unlink or a rename over *)
(*        the path the descriptor keeps the old file                       *)
(***************************************************************************)
\* File::open(path) as a descriptor
File_open(path) == {[node |-> n, live |-> TRUE] : n \in Open(path)}

\* a slip: the whole file is read (read_to_end), not the length checked
read_exact_to_end(file, len) ==
    IF ReadFails(file.node) THEN {} ELSE {file.node.len}

\* Read::read_exact into a buffer of len bytes: the number of bytes read, or
\* an error when the file ends before the buffer is full
read_exact(file, len) ==
    IF ReadFails(file.node) \/ file.node.len < len THEN {} ELSE {len}

\* ZipFile::read_exact of a member located through the descriptor
zf_read_exact(file, zf, len) ==
    IF file.node.bad \/ zf.bad \/ zf.size < len THEN {} ELSE {len}

\* the file after an in-place truncation to no bytes
Truncated(n) == [n EXCEPT !.len = 0, !.zip = FALSE, !.bad = n.zip]

\* the descriptor of a request after the writer changed the file at path
AfterWrite(r, path, how) ==
    IF "fd" \notin DOMAIN r THEN r
    ELSE [r EXCEPT !.fd =
            {IF f.live /\ f.node.path = path
             THEN (IF how = "truncate"
                   THEN [f EXCEPT !.node = Truncated(f.node)]
                   ELSE [f EXCEPT !.live = FALSE])
             ELSE f : f \in r.fd}]

RaceDir == <<DISTRICT_DEFAULT, Y2020, D20200101>>
RaceBundle == <<DISTRICT_DEFAULT, Y2020, D20200101 \o DEXT>>

\* the archive nodes the writer may create during a request
RaceNodes ==
    { File(Append(RaceDir, S100 \o DOT \o V30), 2880),
      File(Append(RaceDir, S100 \o DOT \o V30), 100),
      File(Append(RaceDir, S200 \o DOT \o V30), 2880),
      Link(Append(RaceDir, S500 \o DOT \o V30), 2880),
      Bundle(RaceBundle, {Member(<<S100 \o DOT \o V30>>, 2880),
                          Member(<<S600 \o DOT \o V30>>, 2880)}) }

writer_create ==
    /\ Cardinality(fs) < MaxNodes
    /\ \E n \in RaceNodes :
          /\ NodeAt(n.path) = {}
          /\ fs' = fs \cup {n}
    /\ UNCHANGED <<cfg, req, resp>>

\* a new file is renamed over the path
writer_replace ==
    /\ \E n \in RaceNodes : \E old \in NodeAt(n.path) :
          /\ old # n
          /\ fs' = (fs \ {old}) \cup {n}
          /\ req' = AfterWrite(req, n.path, "replace")
    /\ UNCHANGED <<cfg, resp>>

writer_truncate ==
    /\ \E n \in fs :
          /\ n.len > 0
          /\ fs' = (fs \ {n}) \cup {Truncated(n)}
          /\ req' = AfterWrite(req, n.path, "truncate")
    /\ UNCHANGED <<cfg, resp>>

writer_delete ==
    /\ \E n \in fs :
          /\ fs' = fs \ {n}
          /\ req' = AfterWrite(req, n.path, "delete")
    /\ UNCHANGED <<cfg, resp>>

\* the response of handle_did_date_sid_ext::<OctetStreamOutput> for the
\* bytes read, as main.rs sends it
RaceAnswer(src, bytes) ==
    Respond(Try("did_date_sid_ext",
                OctetStreamOutput({BytesVec(src, n) : n \in bytes})))

\* a request /tms/20200101/<sid>.<ext> enters read_path_sid_ext
race_read_start ==
    /\ req = Idle
    /\ \E sid \in {S100, S200}, ext \in {V30} :
          /\ is_valid_date(D20200101) /\ sample_file_ext(ext) # {}
          /\ req' = [fn |-> "race_read", pc |-> "open", sid |-> sid,
                     ext |-> ext, fd |-> {}, checked |-> {}, zip |-> {}]
    /\ UNCHANGED <<fs, cfg, resp>>

\* sensor.rs 415: File::open of the loose file
race_open ==
    /\ req # Idle /\ req.fn = "race_read" /\ req.pc = "open"
    /\ LET path == set_extension(Push(RaceDir, req.sid), req.ext)
       IN  req' = IF File_open(path) # {}
                  THEN [req EXCEPT !.pc = "metadata", !.fd = File_open(path)]
                  ELSE [req EXCEPT !.pc = "open_bundle"]
    /\ UNCHANGED <<fs, cfg, resp>>

\* sensor.rs 416-418: metadata().len() and the length check
race_metadata ==
    /\ req # Idle /\ req.fn = "race_read" /\ req.pc = "metadata"
    /\ \E file \in req.fd :
          IF is_valid_sample_len(req.ext, file.node.len)
          THEN /\ req' = [req EXCEPT !.pc = "read",
                                     !.checked = {file.node.len}]
               /\ UNCHANGED resp
          ELSE /\ req' = [req EXCEPT !.pc = "done"]
               /\ resp' = RaceAnswer("loose", {})
    /\ UNCHANGED <<fs, cfg>>

\* sensor.rs 419-421: read_exact of the loose file
race_read ==
    /\ req # Idle /\ req.fn = "race_read" /\ req.pc = "read"
    /\ \E file \in req.fd : \E len \in req.checked :
          /\ req' = [req EXCEPT !.pc = "done"]
          /\ resp' = RaceAnswer("loose", read_exact(file, len))
    /\ UNCHANGED <<fs, cfg>>

\* sensor.rs 426-428: File::open of the bundle
race_open_bundle ==
    /\ req # Idle /\ req.fn = "race_read" /\ req.pc = "open_bundle"
    /\ LET path == set_extension(Pop(Push(RaceDir, req.sid)), EXT)
       IN  IF File_open(path) # {}
           THEN /\ req' = [req EXCEPT !.pc = "central_dir",
                                      !.fd = File_open(path)]
                /\ UNCHANGED resp
           ELSE /\ req' = [req EXCEPT !.pc = "done"]
                /\ resp' = RaceAnswer("bundle", {})
    /\ UNCHANGED <<fs, cfg>>

\* sensor.rs 429: ZipArchive::new reads the central directory
race_central_dir ==
    /\ req # Idle /\ req.fn = "race_read" /\ req.pc = "central_dir"
    /\ \E file \in req.fd :
          IF IsZip(file.node)
          THEN /\ req' = [req EXCEPT !.pc = "by_name",
                                     !.zip = file.node.members]
               /\ UNCHANGED resp
          ELSE /\ req' = [req EXCEPT !.pc = "done"]
               /\ resp' = RaceAnswer("bundle", {})
    /\ UNCHANGED <<fs, cfg>>

\* sensor.rs 430-433: by_name, size() and the length check
race_by_name ==
    /\ req # Idle /\ req.fn = "race_read" /\ req.pc = "by_name"
    /\ \E file \in req.fd :
          LET found == {m \in req.zip :
                           /\ ~file.node.bad
                           /\ m.name = <<req.sid \o DOT \o req.ext>>
                           /\ is_valid_sample_len(req.ext, m.size)}
          IN  IF found # {}
              THEN /\ req' = [req EXCEPT !.pc = "read_member",
                                         !.zip = found,
                                         !.checked = {m.size : m \in found}]
                   /\ UNCHANGED resp
              ELSE /\ req' = [req EXCEPT !.pc = "done"]
                   /\ resp' = RaceAnswer("bundle", {})
    /\ UNCHANGED <<fs, cfg>>

\* sensor.rs 434-436: read_exact of the member
race_read_member ==
    /\ req # Idle /\ req.fn = "race_read" /\ req.pc = "read_member"
    /\ \E file \in req.fd : \E zf \in req.zip : \E len \in req.checked :
          /\ req' = [req EXCEPT !.pc = "done"]
          /\ resp' = RaceAnswer("bundle", zf_read_exact(file, zf, len))
    /\ UNCHANGED <<fs, cfg>>

\* DirEntry::file_type of an entry that read_dir returned: the type the
\* directory recorded for it, or that of an lstat of the path now, which
\* fails when the entry is gone
file_type(dir, e) ==
    {[ok |-> TRUE, kind |-> e.kind]}
        \cup {[ok |-> TRUE, kind |-> n.kind] : n \in NodeAt(Append(dir, e.name))}
        \cup (IF NodeAt(Append(dir, e.name)) = {}
              THEN {[ok |-> FALSE, kind |-> ""]} ELSE {})

\* the response of handle_did_date for the names listed, as main.rs sends it
RaceListing(acc) ==
    Respond(Try("did_date", json_response(build_json(NamesVec(acc)))))

\* a request /tms/20200101 enters lookup_sensors
race_list_start ==
    /\ req = Idle
    /\ is_valid_date(D20200101)
    /\ req' = [fn |-> "race_list", pc |-> "read_dir", fd |-> {},
               todo |-> {}, acc |-> EmptyBag]
    /\ UNCHANGED <<fs, cfg, resp>>

\* sensor.rs 103: read_dir of the date directory
race_read_dir ==
    /\ req # Idle /\ req.fn = "race_list" /\ req.pc = "read_dir"
    /\ req' = [req EXCEPT !.pc = "file_type", !.todo = read_dir(RaceDir)]
    /\ UNCHANGED <<fs, cfg, resp>>

\* sensor.rs 104-115: one entry of the directory
race_file_type ==
    /\ req # Idle /\ req.fn = "race_list" /\ req.pc = "file_type"
    /\ \E e \in req.todo : \E tp \in file_type(RaceDir, e) :
          req' = [req EXCEPT
                    !.todo = @ \ {e},
                    !.acc = IF tp.ok /\ tp.kind # "symlink"
                            THEN LET f(x) == check(SidLister, x.name,
                                                   tp.kind = "dir")
                                 IN  @ (+) Collect({e}, f)
                            ELSE @]
    /\ UNCHANGED <<fs, cfg, resp>>

\* sensor.rs 124: File::open of the bundle, once the directory is listed
race_list_open ==
    /\ req # Idle /\ req.fn = "race_list" /\ req.pc = "file_type"
    /\ req.todo = {}
    /\ LET path == set_extension(RaceDir, EXT)
       IN  IF File_open(path) # {}
           THEN /\ req' = [req EXCEPT !.pc = "zip_new",
                                      !.fd = File_open(path)]
                /\ UNCHANGED resp
           ELSE /\ req' = [req EXCEPT !.pc = "done"]
                /\ resp' = RaceListing(req.acc)
    /\ UNCHANGED <<fs, cfg>>

\* sensor.rs 125: ZipArchive::new reads the central directory
race_zip_new ==
    /\ req # Idle /\ req.fn = "race_list" /\ req.pc = "zip_new"
    /\ \E file \in req.fd :
          IF IsZip(file.node)
          THEN /\ req' = [req EXCEPT !.pc = "by_index",
                                     !.todo = file.node.members]
               /\ UNCHANGED resp
          ELSE /\ req' = [req EXCEPT !.pc = "done"]
               /\ resp' = RaceListing(req.acc)
    /\ UNCHANGED <<fs, cfg>>

\* sensor.rs 126-136: one member of the bundle; by_index fails when the
\* member's header can no longer be read
race_by_index ==
    /\ req # Idle /\ req.fn = "race_list" /\ req.pc = "by_index"
    /\ \E file \in req.fd : \E zf \in req.todo :
          req' = [req EXCEPT
                    !.todo = @ \ {zf},
                    !.acc = IF ~file.node.bad
                            THEN LET f(m) == UNION {check(SidLister, nm, FALSE) :
                                                       nm \in file_name(m.name)}
                                 IN  @ (+) Collect({zf}, f)
                            ELSE @]
    /\ UNCHANGED <<fs, cfg, resp>>

\* sensor.rs 140, 276-282: the list is complete
race_list_done ==
    /\ req # Idle /\ req.fn = "race_list" /\ req.pc = "by_index"
    /\ req.todo = {}
    /\ req' = [req EXCEPT !.pc = "done"]
    /\ resp' = RaceListing(req.acc)
    /\ UNCHANGED <<fs, cfg>>

\* the response is sent
race_finish ==
    /\ req # Idle /\ req.fn \in {"race_read", "race_list"} /\ req.pc = "done"
    /\ req' = Idle
    /\ resp' = Pending
    /\ UNCHANGED <<fs, cfg>>

NextRace ==
    \/ writer_create
    \/ writer_replace
    \/ writer_truncate
    \/ writer_delete
    \/ race_read_start
    \/ race_open
    \/ race_metadata
    \/ race_read
    \/ race_open_bundle
    \/ race_central_dir
    \/ race_by_name
    \/ race_read_member
    \/ race_list_start
    \/ race_read_dir
    \/ race_file_type
    \/ race_list_open
    \/ race_zip_new
    \/ race_by_index
    \/ race_list_done
    \/ race_finish

SpecRace == Init /\ [][NextRace]_vars

\* C11: whatever the writer does between the filesystem calls of a request,
\* the request ends with a response and no panic: a sample read answers 200
\* with exactly the number of bytes that passed the length check, or 404;
\* a listing answers 200 with the names it collected, or 404.
C11_RaceEndsInResponse ==
    (req.fn \in {"race_read", "race_list"} /\ req.pc = "done") =>
        /\ resp.done /\ ~resp.panic
        /\ resp.http.status \in {200, 404}
        /\ resp.http.status = 404 => resp.http = not_found
        /\ (req.fn = "race_read" /\ resp.http.status = 200) =>
              /\ resp.http.body.data.kind = "bytes"
              /\ req.checked = {resp.http.body.data.len}
              /\ is_valid_sample_len(req.ext, resp.http.body.data.len)
        /\ (req.fn = "race_list" /\ resp.http.status = 200) =>
              /\ resp.http.body.data = NamesVec(req.acc)
              /\ req.acc # EmptyBag

\* C11 witness: the loose file was truncated between the length check and
\* the read, and the request ended with 404.
C11_Witness ==
    /\ req.fn = "race_read" /\ req.pc = "done"
    /\ req.checked = {2880}
    /\ \E file \in req.fd : file.node.len = 0
    /\ resp.http = not_found

(***************************************************************************)
(* The implied attributes of the configuration schema (metro.rs 41-187).   *)
(*                                                                         *)
(* A source element is its kind and the attributes it carries, a function  *)
(* from attribute names to values; only the attributes declared with       *)
(* default = "implied_str" and skip_serializing_if = "implied" are kept,   *)
(* the others are (de)serialised independently of them.  Attribute values  *)
(* are only compared, so they are plain strings.                           *)
(***************************************************************************)
implied_str == "#IMPLIED"

implied(val) == val = "#IMPLIED"

\* the fields declared #[serde(default = "implied_str")] of each struct
ImpliedFields(kind) ==
    CASE kind = "r_node" -> {"station_id", "forks"}
      [] kind = "detector" -> {"controller"}
      [] kind = "meter" -> {"lon", "lat"}
      [] kind = "camera" -> {"lon", "lat"}
      [] kind = "controller" -> {"commlink", "lon", "lat", "cabinet", "notes"}
      [] kind = "dms" -> {"lon", "lat", "width_pixels", "height_pixels"}

\* serde_xml_rs::from_str: a field the element does not carry takes its
\* default
from_str(kind, src) ==
    [a \in ImpliedFields(kind) |->
        IF a \in DOMAIN src THEN src[a] ELSE implied_str]

\* serde_json::to_string: a field is skipped when skip_serializing_if holds
to_string(kind, val) ==
    LET kept == {a \in ImpliedFields(kind) : ~implied(val[a])}
    IN  [a \in kept |-> val[a]]

ElementKinds == {"r_node", "detector", "meter", "camera", "controller", "dms"}

\* values an attribute of the source may carry
AttrValues == {"", "45.1", "#IMPLIED"}

\* the source elements: every choice of carried attributes and values
Elements ==
    UNION {UNION {{[kind |-> k, attrs |-> f] : f \in [S -> AttrValues]} :
                     S \in SUBSET ImpliedFields(k)} : k \in ElementKinds}

InitImplied ==
    /\ fs = {}
    /\ cfg = {}
    /\ req \in {[fn |-> "to_json", elem |-> e] : e \in Elements}
    /\ resp = Pending

\* metro.rs 196-198, 213-215: from_str, then serde_json::to_string
ApplyToJson ==
    /\ ~resp.done
    /\ resp' = [done |-> TRUE,
                json |-> to_string(req.elem.kind,
                                   from_str(req.elem.kind, req.elem.attrs))]
    /\ UNCHANGED <<fs, cfg, req>>

NextImplied == ApplyToJson

SpecImplied == InitImplied /\ [][NextImplied]_vars

\* C12: in the JSON of an element each implied attribute is present, with
\* its source value, iff the source element carried it, whatever the value;
\* and "#IMPLIED" is never emitted for an attribute the source did not carry.
C12_ImpliedIffCarried ==
    (resp.done /\ req.fn = "to_json") =>
        \A a \in ImpliedFields(req.elem.kind) :
            /\ (a \in DOMAIN resp.json) <=> (a \in DOMAIN req.elem.attrs)
            /\ (a \in DOMAIN resp.json) => resp.json[a] = req.elem.attrs[a]

(***************************************************************************)
(* The date list of one (district, year), the year valid as                *)
(* handle_did_year has checked it (sensor.rs 241-273).                     *)
(***************************************************************************)
D20200103 == <<"2", "0", "2", "0", "0", "1", "0", "3">>
D20201301 == <<"2", "0", "2", "0", "1", "3", "0", "1">>
SignedDate == <<"2", "0", "2", "0", "+", "1", "+", "1">>

\* the entries of tms/2020 the writer may create
DateNodes ==
    LET year == <<DISTRICT_DEFAULT, Y2020>>
    IN  { Dir(Append(year, D20200101)),
          File(year \o <<D20200103, S100 \o DOT \o V30>>, 2880),
          Bundle(Append(year, D20200102 \o DEXT), {}),
          Bundle(Append(year, D20200101 \o DEXT),
                 {Member(<<S100 \o DOT \o V30>>, 2880)}),
          File(Append(year, D20200103 \o DEXT), 5),
          Link(Append(year, D20200102), 0),
          Link(Append(year, D20200103 \o DEXT), 1000),
          Dir(Append(year, D20201301)),
          Dir(Append(year, D20200102 \o DEXT)),
          File(Append(year, README), 10),
          File(Append(year, D20200101), 10),
          Dir(Append(year, SignedDate)) }

list_dates ==
    /\ req = Idle
    /\ \E district \in {DISTRICT_DEFAULT}, year \in {Y2020, Y2021} :
          /\ parse_year(year) # {}
          /\ req' = [fn |-> "handle_dates_text", district |-> district,
                     year |-> year]
          /\ resp' = [done |-> TRUE, val |-> handle_dates_text(district, year)]
    /\ UNCHANGED <<fs, cfg>>

NextDates ==
    \/ Create(DateNodes)
    \/ Delete
    \/ list_dates
    \/ Finish

SpecDates == Init /\ [][NextDates]_vars

\* the dates of the entries of <district>/<year> that are not symbolic
\* links: a directory named by a date, or a non-directory named
\* <date>.traffic; each date as often as an entry gives it
DatesOfYear(r) ==
    LET entries == {e \in read_dir(<<r.district, r.year>>) : e.kind # "symlink"}
        date(e) == IF e.kind = "dir"
                   THEN (IF IsEightDigitDate(e.name) THEN {e.name} ELSE {})
                   ELSE (IF Len(e.name) = 16 /\ SubSeq(e.name, 9, 16) = DEXT
                            /\ IsEightDigitDate(SubSeq(e.name, 1, 8))
                         THEN {SubSeq(e.name, 1, 8)} ELSE {})
        dates == UNION {date(e) : e \in entries}
    IN  [d \in dates |-> Cardinality({e \in entries : d \in date(e)})]

\* the lines of a text, each ended by a newline
RECURSIVE SplitLines(_)
SplitLines(text) ==
    IF text = <<>> THEN <<>>
    ELSE LET nl == Min({i \in 1..Len(text) : text[i] = "\n"} \cup {Len(text) + 1})
         IN  <<SubSeq(text, 1, nl - 1)>>
                 \o SplitLines(SubSeq(text, nl + 1, Len(text)))

\* C13: the date list of a valid year is the text of the dates of the
\* year's directories named by a valid date and of its non-directory
\* entries named <valid date>.traffic, symbolic links left out, in
\* ascending order, each followed by a newline; None when there is none.
C13_DateListText ==
    (resp.done /\ req.fn = "handle_dates_text") =>
        LET expected == DatesOfYear(req)
        IN  IF expected = EmptyBag THEN resp.val = {}
            ELSE /\ resp.val # {}
                 /\ \A t \in resp.val :
                       LET lines == SplitLines(t.text)
                       IN  /\ t.text[Len(t.text)] = "\n"
                           /\ [d \in {lines[i] : i \in 1..Len(lines)} |->
                                 Cardinality({i \in 1..Len(lines) : lines[i] = d})]
                                = expected
                           /\ \A i \in 1..(Len(lines) - 1) :
                                 DigitsValue(lines[i]) <= DigitsValue(lines[i + 1])

(***************************************************************************)
(* is_valid_date on strings that hold characters of more than one byte     *)
(* (sensor.rs 228-234, metro.rs 254-259), and the two places that pass it  *)
(* a name they did not choose: DateLister::check (a directory entry) and   *)
(* handle_did_date (a URL segment).  A panic unwinds through the caller,   *)
(* which then produces no result.                                          *)
(***************************************************************************)
YearPartsWide ==
    { <<"2", "0", "2", E_ACUTE>>, <<"2", "0", E_ACUTE>>, <<"2", EURO>>,
      <<EURO, "2">>, <<E_ACUTE, E_ACUTE>> }

MonthPartsWide == { <<"0", E_ACUTE>>, <<E_ACUTE>>, <<"0">> }

DayPartsWide == { <<E_ACUTE>>, <<"1", E_ACUTE>>, <<E_ACUTE, "1">> }

WideInputs ==
    {y \o m \o d : y \in {Y2020, <<"2", "0", "a", "0">>} \cup YearPartsWide,
                   m \in {<<"0", "1">>, <<"1", "3">>} \cup MonthPartsWide,
                   d \in {<<"0", "1">>, <<"3", "2">>} \cup DayPartsWide}

\* DateLister::check does not return: is_valid_date panics on the name or
\* on its first 8 bytes
DateLister_check_panics(name, dir) ==
    IF dir THEN is_valid_date_panics(name)
    ELSE /\ str_len(name) = 16 /\ ends_with(name, DEXT)
         /\ \/ slice_panics(name, 0, 8)
            \/ is_valid_date_panics(str_slice(name, 0, 8))

InitWide ==
    /\ fs = {}
    /\ cfg = {}
    /\ req \in {[fn |-> f, name |-> d] :
                   f \in {"is_valid_date", "metro_is_valid_date",
                          "handle_did_date"},
                   d \in WideInputs}
            \cup {[fn |-> "DateLister_check", name |-> d \o x] :
                   d \in WideInputs, x \in {<<>>, DEXT}}
    /\ resp = Pending

wide_is_valid_date ==
    /\ req.fn \in {"is_valid_date", "metro_is_valid_date"} /\ ~resp.done
    /\ resp' = IF is_valid_date_panics(req.name)
               THEN [done |-> TRUE, panic |-> TRUE]
               ELSE [done |-> TRUE, panic |-> FALSE,
                     val |-> IF req.fn = "is_valid_date"
                             THEN is_valid_date(req.name)
                             ELSE metro_is_valid_date(req.name)]
    /\ UNCHANGED <<fs, cfg, req>>

\* a directory entry of a year directory, as a directory or a file
wide_check ==
    /\ req.fn = "DateLister_check" /\ ~resp.done
    /\ \E dir \in BOOLEAN :
          resp' = IF DateLister_check_panics(req.name, dir)
                  THEN [done |-> TRUE, panic |-> TRUE]
                  ELSE [done |-> TRUE, panic |-> FALSE,
                        val |-> check(DateLister, req.name, dir)]
    /\ UNCHANGED <<fs, cfg, req>>

\* the segment P2 of /tms/P2 read as a date
wide_handle_did_date ==
    /\ req.fn = "handle_did_date" /\ ~resp.done
    /\ resp' = IF is_valid_date_panics(req.name)
               THEN [done |-> TRUE, panic |-> TRUE]
               ELSE [done |-> TRUE, panic |-> FALSE,
                     val |-> handle_did_date(DISTRICT_DEFAULT, req.name)]
    /\ UNCHANGED <<fs, cfg, req>>

NextWide ==
    \/ wide_is_valid_date
    \/ wide_check
    \/ wide_handle_did_date

SpecWide == InitWide /\ [][NextWide]_vars

\* C14: is_valid_date returns true or false for every string, also for
\* strings of 8 bytes that hold multi-byte characters; so DateLister::check
\* and the handlers that pass it a name always produce a result.
C14_IsValidDateTotal ==
    (resp.done /\ req.fn \in {"is_valid_date", "metro_is_valid_date",
                              "handle_did_date", "DateLister_check"})
        => ~resp.panic

(***************************************************************************)
(* A sensor listed, its extensions listed and the sample requested, all on *)
(* the same archive (sensor.rs 175-211, 284-296, 378-469, 521-527).        *)
(***************************************************************************)
S100X == S100 \o DOT \o <<"x">>

AgreeNodes ==
    LET dir == <<DISTRICT_DEFAULT, Y2020, D20200101>>
        bundle == <<DISTRICT_DEFAULT, Y2020, D20200101 \o DEXT>>
    IN  { File(Append(dir, S100 \o DOT \o V30), 2880),
          File(Append(dir, S100 \o DOT \o C30), 5760),
          File(Append(dir, S100X \o DOT \o V30), 2880),
          File(Append(dir, S200 \o DOT \o V30), 100),
          Bundle(bundle, {Member(<<S100 \o DOT \o V30>>, 2880),
                          Member(<<S500 \o DOT \o V30>>, 2880)}),
          Bundle(bundle, {Member(<<S200 \o DOT \o V30>>, 2880)}) }

\* GET /tms/20200101, GET /tms/20200101/<sid>.json and
\* GET /tms/20200101/<sid>.<ext>, with no change of the archive between
list_and_read ==
    /\ req = Idle
    /\ \E sid \in {S100, S200, S500, S100X}, ext \in {V30, C30} :
          LET district == DISTRICT_DEFAULT
              date == D20200101
          IN  /\ req' = [fn |-> "list_and_read", district |-> district,
                         date |-> date, sid |-> sid, ext |-> ext]
              /\ resp' = [done    |-> TRUE,
                          sensors |-> lookup_sensors(district, date),
                          exts    |-> lookup_ext(district, date, sid),
                          sample  |-> Respond(handle_3_params(
                                         district, date, sid \o DOT \o ext))]
    /\ UNCHANGED <<fs, cfg>>

NextAgree ==
    \/ Create(AgreeNodes)
    \/ Delete
    \/ list_and_read
    \/ Finish

SpecAgree == Init /\ [][NextAgree]_vars

\* C15: on an unchanged archive every sensor id the sensor listing returns
\* has a non-empty extension listing, and every extension that listing
\* returns for it is served with 200 at /district/date/<sid>.<ext>.
C15_ListedIsServed ==
    (resp.done /\ req.fn = "list_and_read") =>
        /\ req.sid \in DOMAIN resp.sensors.items => resp.exts.len > 0
        /\ req.ext \in DOMAIN resp.exts.items => resp.sample.http.status = 200

\* C16: a list response holds each name at most once: the sensor list of a
\* date has no sensor id twice and the extension list of a sensor has no
\* extension twice, whatever the directory and the bundle hold.
C16_NamesOnce ==
    (resp.done /\ req.fn \in {"lookup_sensors", "lookup_ext"}) =>
        \A name \in DOMAIN resp.val.items : resp.val.items[name] = 1

(***************************************************************************)
(* The paths a request hands to read_dir and File::open (sensor.rs         *)
(* 257-265, 284-296, 392-445; metro.rs 261-273).  A path is the sequence   *)
(* of components below the root; PathBuf::push appends a component as it   *)
(* is, ".." included, and the route patterns of main.rs give a segment no  *)
(* '/'.  A node of fs whose path starts with ".." lies outside the root:   *)
(* <<"..", "2020">> is /var/lib/iris/2020.                                 *)
(***************************************************************************)
\* lookup_sensors: the directory listed and the bundle opened
paths_lookup_sensors(district, date) ==
    {DatePath(district, date), set_extension(DatePath(district, date), EXT)}

\* lookup_dates: the directory listed
paths_lookup_dates(district, year) == {Push(Push(<<>>, district), year)}

\* read_path_sid_ext: the loose file opened and, when that fails, the bundle
paths_read_path_sid_ext(path0, sid, ext) ==
    LET path == set_extension(Push(path0, sid), ext)
    IN  {path} \cup (IF Open(path) = {}
                     THEN {set_extension(Pop(path), EXT)} ELSE {})

paths_did_date(district, date) ==
    IF is_valid_date(date) THEN paths_lookup_sensors(district, date) ELSE {}

paths_did_date_sidext(district, date, sid_ext) ==
    UNION {IF is_valid_date(date) /\ sample_file_ext(ext) # {}
           THEN paths_read_path_sid_ext(DatePath(district, date),
                                        SplitSid(sid_ext), ext)
           ELSE {} : ext \in SplitExt(sid_ext)}

\* the paths one interpretation of a request touches
paths_of(branch, p1, p2, p3) ==
    CASE branch = "did_date" -> paths_did_date(p1, p2)
      [] branch = "year_date" ->
            IF is_valid_year_date(p1, p2) /\ SubSeq(p2, 1, 4) = p1
            THEN paths_did_date(DISTRICT_DEFAULT, p2) ELSE {}
      [] branch = "did_year" ->
            IF parse_year(p2) # {} THEN paths_lookup_dates(p1, p2) ELSE {}
      [] branch = "did_date_sidext" -> paths_did_date_sidext(p1, p2, p3)
      [] branch = "year_date_sidext" ->
            IF is_valid_year_date(p1, p2) /\ SubSeq(p2, 1, 4) = p1
            THEN paths_did_date_sidext(DISTRICT_DEFAULT, p2, p3) ELSE {}
      [] branch = "did_year_date" ->
            IF is_valid_year_date(p2, p3) /\ SubSeq(p3, 1, 4) = p2
            THEN paths_did_date(p1, p3) ELSE {}

\* get_xml_file: the snapshot file opened, a single component
\* metro_config_<date>.xml.gz below the configuration root
paths_get_xml_file(date) ==
    {<< <<"m", "e", "t", "r", "o", "_", "c", "o", "n", "f", "i", "g", "_">>
           \o date \o <<".", "x", "m", "l", ".", "g", "z">> >>}

\* the archive, and two directories beside it under /var/lib/iris
ConfineNodes ==
    { File(<<DISTRICT_DEFAULT, Y2020, D20200101, S100 \o DOT \o V30>>, 2880),
      Bundle(<<DISTRICT_DEFAULT, Y2020, D20200101 \o DEXT>>,
             {Member(<<S200 \o DOT \o V30>>, 2880)}),
      File(<<DOTDOT, Y2020, D20200101, S500 \o DOT \o V30>>, 2880),
      Dir(<<DOTDOT, Y2020, D20200102>>) }

ConfineSeg1 == {DISTRICT_DEFAULT, DOTDOT, DOT, Y2020}
ConfineSeg2 == {Y2020, D20200101, DOTDOT}
ConfineSeg3 == {S500 \o DOT \o V30, D20200101, DOTDOT}

confine_2 ==
    /\ req = Idle
    /\ \E p1 \in ConfineSeg1, p2 \in ConfineSeg2 :
          LET r == handle_2_params(p1, p2)
          IN  /\ req' = [fn |-> "confine_2", p1 |-> p1, p2 |-> p2, p3 |-> <<>>]
              /\ resp' = [Respond(r) EXCEPT !.tried = r.tried] @@
                         [paths |-> UNION {paths_of(r.tried[i], p1, p2, <<>>) :
                                              i \in 1..Len(r.tried)}]
    /\ UNCHANGED <<fs, cfg>>

confine_3 ==
    /\ req = Idle
    /\ \E p1 \in ConfineSeg1, p2 \in ConfineSeg2, p3 \in ConfineSeg3 :
          LET r == handle_3_params(p1, p2, p3)
          IN  /\ req' = [fn |-> "confine_3", p1 |-> p1, p2 |-> p2, p3 |-> p3]
              /\ resp' = [Respond(r) EXCEPT !.tried = r.tried] @@
                         [paths |-> UNION {paths_of(r.tried[i], p1, p2, p3) :
                                              i \in 1..Len(r.tried)}]
    /\ UNCHANGED <<fs, cfg>>

confine_metro ==
    /\ req = Idle
    /\ \E p1 \in {D20200615, DOTDOT, SignedDate} :
          /\ req' = [fn |-> "confine_metro", p1 |-> p1, p2 |-> <<>>,
                     p3 |-> <<>>]
          /\ resp' = [Respond(Try("xml", handle_1_param_xml(p1))) EXCEPT
                         !.tried = <<"xml">>] @@
                     [paths |-> IF metro_is_valid_date(p1)
                                THEN paths_get_xml_file(p1) ELSE {}]
    /\ UNCHANGED <<fs, cfg>>

NextConfine ==
    \/ Create(ConfineNodes)
    \/ Delete
    \/ CreateSnapshot
    \/ confine_2
    \/ confine_3
    \/ confine_metro
    \/ Finish

SpecConfine == Init /\ [][NextConfine]_vars

\* the number of directories a path stands below the root after its first
\* n components; below 0 the path has left the root
RECURSIVE Depth(_, _)
Depth(path, n) ==
    IF n = 0 THEN 0
    ELSE Depth(path, n - 1)
           + (IF path[n] = DOTDOT THEN 0 - 1 ELSE IF path[n] = DOT THEN 0 ELSE 1)

Inside(path) == \A n \in 1..Len(path) : Depth(path, n) >= 0

\* C17: whatever the segments of a request, every directory it lists and
\* every file it opens lies inside the traffic root, and a /metro_config
\* request opens only a file directly inside the configuration root.
C17_StaysInsideRoots ==
    (resp.done /\ req.fn \in {"confine_2", "confine_3", "confine_metro"}) =>
        \A path \in resp.paths :
            /\ Inside(path)
            /\ req.fn = "confine_metro" =>
                  /\ Len(path) = 1 /\ path[1] # DOTDOT
                  /\ \A i \in 1..Len(path[1]) : path[1][i] # "/"

====
